---- MODULE Spec2Model ----
(***************************************************************************)
(* python-gnumake, gnumake/core.py: the bridge between an embedded Python  *)
(* and GNU make's loadable-function protocol.                              *)
(*                                                                         *)
(* Strings are sequences of tokens.  A token is one character ("a", "$",   *)
(* "\\", "\n", ...) or one word that the code and the host treat as a unit *)
(* ("endef", "define", "PYTHON_LAST_ERROR", an exception's name).  Python  *)
(* text (str) and host bytes are kept apart: encode and decode translate   *)
(* between them and fail where UTF-8 fails.                                *)
(***************************************************************************)
EXTENDS Integers, Sequences, FiniteSets, TLC

VARIABLES
    vars,                \* the host's variable table: name -> [flavor, value]
    hostAlive,           \* FALSE once the host has stopped on a fatal error
    _callback_registry,  \* core.py:155, exported name -> callable
    gmk_functions,       \* the host's function table: name -> [min_args, max_args, flags]
    last,                \* the most recent operation, its inputs and outcome
    obj,                 \* the input of the codec's pure functions
    fds,                 \* the process's descriptor table: descriptor -> open file
    sys_argv             \* sys.argv of the embedded interpreter

allvars ==
    <<vars, hostAlive, _callback_registry, gmk_functions, last, obj, fds,
      sys_argv>>

(***************************************************************************)
(* Bounds of the model.                                                    *)
(***************************************************************************)
MaxLen == 3          \* longest text or byte string given to the codec
MaxNameLen == 2      \* longest variable name given to is_legal_name
MaxStoreLen == 4     \* append is not taken on a value longer than this
MaxParams == 3       \* most parameters in a signature given to export
MaxOpenFiles == 9    \* descriptors the process may hold open (RLIMIT_NOFILE)
MaxDepth == 2        \* deepest nesting of python-exec/python-file calls

(***************************************************************************)
(* Alphabets.                                                              *)
(***************************************************************************)
AsciiChar == {"a", "$", "(", ")", "endef", "\\", "\n"}
\* U+00E9 is a two-byte character, U+DC80 a lone surrogate (no UTF-8 form).
TextChar == AsciiChar \cup {"U+00E9", "U+DC80"}
\* 0xC3 0xA9 is U+00E9; either byte alone is not valid UTF-8.
ByteChar == AsciiChar \cup {"0xC3", "0xA9"}

RECURSIVE SeqsUpTo(_, _)
SeqsUpTo(S, n) ==
    IF n = 0 THEN {<<>>}
    ELSE LET shorter == SeqsUpTo(S, n - 1)
         IN  shorter \cup {Append(s, c) : s \in shorter, c \in S}

(***************************************************************************)
(* Python outcomes: a value or a raised exception.                         *)
(***************************************************************************)
Ok(v) == [exc |-> "none", val |-> v]
Raise(kind) == [exc |-> kind, val |-> <<>>]

\* str.encode(): UTF-8, strict.
RECURSIVE EncodeFrom(_, _)
EncodeFrom(s, i) ==
    IF i > Len(s) THEN <<>>
    ELSE (IF s[i] = "U+00E9" THEN <<"0xC3", "0xA9">> ELSE <<s[i]>>)
         \o EncodeFrom(s, i + 1)

Encode(s) ==
    IF \E i \in DOMAIN s : s[i] = "U+DC80" THEN Raise("UnicodeEncodeError")
    ELSE Ok(EncodeFrom(s, 1))

\* bytes.decode(): UTF-8, strict.
RECURSIVE Decodable(_, _)
Decodable(b, i) ==
    IF i > Len(b) THEN TRUE
    ELSE IF b[i] = "0xC3"
         THEN i < Len(b) /\ b[i + 1] = "0xA9" /\ Decodable(b, i + 2)
    ELSE b[i] # "0xA9" /\ Decodable(b, i + 1)

RECURSIVE DecodeFrom(_, _)
DecodeFrom(b, i) ==
    IF i > Len(b) THEN <<>>
    ELSE IF b[i] = "0xC3" THEN <<"U+00E9">> \o DecodeFrom(b, i + 2)
    ELSE <<b[i]>> \o DecodeFrom(b, i + 1)

Decode(b) ==
    IF Decodable(b, 1) THEN Ok(DecodeFrom(b, 1)) ELSE Raise("UnicodeDecodeError")

\* str.replace(old, new): every non-overlapping occurrence, left to right.
RECURSIVE ReplaceFrom(_, _, _, _)
ReplaceFrom(s, i, old, new) ==
    IF i > Len(s) THEN <<>>
    ELSE IF i + Len(old) - 1 <= Len(s) /\ SubSeq(s, i, i + Len(old) - 1) = old
         THEN new \o ReplaceFrom(s, i + Len(old), old, new)
    ELSE <<s[i]>> \o ReplaceFrom(s, i + 1, old, new)

Replace(s, old, new) == ReplaceFrom(s, 1, old, new)

(***************************************************************************)
(* Python values, by the kinds the codec dispatches on.  s is the text of  *)
(* a str or of an object's str(), or the bytes of a bytes, a bytearray or  *)
(* an object exposing a buffer (memoryview, array).                        *)
(***************************************************************************)
PyTrue == [kind |-> "True", s |-> <<>>]
PyFalse == [kind |-> "False", s |-> <<>>]
PyNone == [kind |-> "None", s |-> <<>>]
PyStr(s) == [kind |-> "str", s |-> s]
PyBytes(b) == [kind |-> "bytes", s |-> b]
PyByteArray(b) == [kind |-> "bytearray", s |-> b]
PyBuffer(b) == [kind |-> "buffer", s |-> b]
PyObject(s) == [kind |-> "object", s |-> s]
PyBadObject == [kind |-> "badobject", s |-> <<>>]

TextKinds == {"str", "object"}
ByteKinds == {"bytes", "bytearray", "buffer"}

PyValues(n) ==
    {PyTrue, PyFalse, PyNone, PyBadObject}
    \cup {[kind |-> k, s |-> s] : k \in TextKinds, s \in SeqsUpTo(TextChar, n)}
    \cup {[kind |-> k, s |-> b] : k \in ByteKinds, b \in SeqsUpTo(ByteChar, n)}

(***************************************************************************)
(* The codec (core.py:75-151).                                             *)
(***************************************************************************)
ILLEGAL_VAR_CHARS ==
    {" ", "\t", "\n", "\r", "VT", "\f", ":", "#", "=", "$", "(", ")"}

\* A host buffer (gmk_alloc) or the null pointer.
NullBuffer == [exc |-> "none", null |-> TRUE, val |-> <<>>]
Buffer(b) == [exc |-> "none", null |-> FALSE, val |-> b]
RaiseBuffer(kind) == [exc |-> kind, null |-> TRUE, val |-> <<>>]

_value_to_gmk_char(o) ==
    CASE o.kind = "True" -> Buffer(<<"1">>)
      [] o.kind \in {"False", "None"} -> NullBuffer
      [] o.kind \in {"bytes", "bytearray"} -> Buffer(o.s)
      [] o.kind = "str" ->
            LET e == Encode(o.s)
            IN  IF e.exc # "none" THEN RaiseBuffer(e.exc) ELSE Buffer(e.val)
      [] o.kind = "buffer" -> Buffer(o.s)
      [] o.kind = "object" ->
            LET e == Encode(o.s)
            IN  IF e.exc # "none" THEN NullBuffer ELSE Buffer(e.val)
      [] OTHER -> NullBuffer

object_to_string(o) ==
    CASE o.kind = "True" -> Ok(<<"1">>)
      [] o.kind \in {"False", "None"} -> Ok(<<>>)
      [] o.kind = "str" -> Ok(o.s)
      [] o.kind \in {"bytes", "bytearray"} -> Decode(o.s)
      \* bytes(memoryview(obj)).encode(): bytes has no encode
      [] o.kind = "buffer" -> Raise("AttributeError")
      [] o.kind = "object" -> Ok(o.s)
      [] OTHER -> Ok(<<>>)

\* is_legal_name with the closing parenthesis missing from the illegal set.
is_legal_name_NoParen(name) ==
    {name[i] : i \in DOMAIN name} \cap (ILLEGAL_VAR_CHARS \ {")"}) = {}

is_legal_name(name) ==
    {name[i] : i \in DOMAIN name} \cap ILLEGAL_VAR_CHARS = {}

\* escape_string that leaves endef as it is.
escape_string_KeepsEndef(s) ==
    Replace(s, <<"\\", "\n">>, <<"\\", "$", "(", ")", "\n">>)

escape_string(s) ==
    LET s1 == Replace(s, <<"endef">>, <<"$", "(", ")", "endef">>)
    IN  Replace(s1, <<"\\", "\n">>, <<"\\", "$", "(", ")", "\n">>)

fully_escape_string(s) ==
    LET s1 == Replace(s, <<"endef">>, <<"$", "(", ")", "endef">>)
        s2 == Replace(s1, <<"\\", "\n">>, <<"\\", "$", "(", ")", "\n">>)
    IN  Replace(s2, <<"$">>, <<"$", "$">>)

(***************************************************************************)
(* The host, GNU make, as far as gmk_eval and gmk_expand (core.py:52-58)   *)
(* are used by this module: define/endef blocks, undefine, and the         *)
(* expansion of $$, $(), $(name), $x and $(value|origin|flavor name).      *)
(* A variable table maps the defined names to [flavor, value]; a name      *)
(* outside its domain is undefined.  A fatal error stops the host.         *)
(***************************************************************************)
NoVars == [n \in {} |-> [flavor |-> "recursive", value |-> <<>>]]

IsDefined(V, n) == n \in DOMAIN V

Bind(V, n, flavor, value) ==
    [m \in DOMAIN V \cup {n} |->
        IF m = n THEN [flavor |-> flavor, value |-> value] ELSE V[m]]

Unbind(V, n) == [m \in DOMAIN V \ {n} |-> V[m]]

\* An expansion is the bytes it yields; a fatal error of the host shows as
\* the Fatal mark among them.
Fatal == "<fatal>"
IsFatal(b) == \E i \in DOMAIN b : b[i] = Fatal

Blank == {" ", "\t"}

RECURSIVE FirstNonBlank(_, _)
FirstNonBlank(t, i) ==
    IF i > Len(t) \/ t[i] \notin Blank THEN i ELSE FirstNonBlank(t, i + 1)

RECURSIVE LastNonBlank(_, _)
LastNonBlank(t, j) ==
    IF j < 1 \/ t[j] \notin Blank THEN j ELSE LastNonBlank(t, j - 1)

\* Leading and trailing blanks removed.
Strip(t) == SubSeq(t, FirstNonBlank(t, 1), LastNonBlank(t, Len(t)))

\* The index of the ")" closing a reference opened before t[i], or 0.
RECURSIVE MatchParen(_, _, _)
MatchParen(t, i, depth) ==
    IF i > Len(t) THEN 0
    ELSE IF t[i] = "(" THEN MatchParen(t, i + 1, depth + 1)
    ELSE IF t[i] = ")"
         THEN IF depth = 1 THEN i ELSE MatchParen(t, i + 1, depth - 1)
    ELSE MatchParen(t, i + 1, depth)

HostFunctions == {"value", "origin", "flavor"}

RECURSIVE ExpandFrom(_, _, _, _)
RECURSIVE Reference(_, _, _)

\* The value of a variable reference; visiting holds the recursive variables
\* being expanded, and a variable that refers to itself is a fatal error.
Lookup(n, V, visiting) ==
    IF ~IsDefined(V, n) THEN <<>>
    ELSE IF V[n].flavor = "simple" THEN V[n].value
    ELSE IF n \in visiting THEN <<Fatal>>
    ELSE ExpandFrom(V[n].value, 1, V, visiting \cup {n})

\* What stands between "$(" and ")": a function call or a variable name.
Reference(body, V, visiting) ==
    IF Len(body) >= 2 /\ body[1] \in HostFunctions /\ body[2] \in Blank
    THEN LET arg == ExpandFrom(Strip(SubSeq(body, 3, Len(body))), 1, V, visiting)
             n == Strip(arg)
         IN  IF IsFatal(arg) THEN <<Fatal>>
             ELSE IF body[1] = "value"
                  THEN IF IsDefined(V, n) THEN V[n].value ELSE <<>>
             ELSE IF body[1] = "origin"
                  THEN IF IsDefined(V, n) THEN <<"file">> ELSE <<"undefined">>
             ELSE IF IsDefined(V, n) THEN <<V[n].flavor>> ELSE <<"undefined">>
    ELSE LET name == ExpandFrom(body, 1, V, visiting)
         IN  IF IsFatal(name) THEN <<Fatal>> ELSE Lookup(name, V, visiting)

\* variable_expand_string on t[i..]: $$ is a dollar, $(...) and $x are
\* references, a dollar at the end stands for itself.
ExpandFrom(t, i, V, visiting) ==
    IF i > Len(t) THEN <<>>
    ELSE IF t[i] # "$" THEN <<t[i]>> \o ExpandFrom(t, i + 1, V, visiting)
    ELSE IF i = Len(t) THEN <<"$">>
    ELSE IF t[i + 1] = "$" THEN <<"$">> \o ExpandFrom(t, i + 2, V, visiting)
    ELSE IF t[i + 1] = "("
         THEN LET close == MatchParen(t, i + 2, 1)
              IN  IF close = 0 THEN <<Fatal>>   \* unterminated variable reference
                  ELSE Reference(SubSeq(t, i + 2, close - 1), V, visiting)
                       \o ExpandFrom(t, close + 1, V, visiting)
    ELSE Lookup(<<t[i + 1]>>, V, visiting) \o ExpandFrom(t, i + 2, V, visiting)

\* gmk_expand.
HostExpand(t, V) == ExpandFrom(t, 1, V, {})

\* The index of the first newline at or after t[i], or 0.
RECURSIVE NextNewline(_, _)
NextNewline(t, i) ==
    IF i > Len(t) THEN 0
    ELSE IF t[i] = "\n" THEN i
    ELSE NextNewline(t, i + 1)

\* The physical lines of t[i..].
RECURSIVE SplitFrom(_, _)
SplitFrom(t, i) ==
    LET j == NextNewline(t, i)
    IN  IF j = 0 THEN <<SubSeq(t, i, Len(t))>>
        ELSE <<SubSeq(t, i, j - 1)>> \o SplitFrom(t, j + 1)

SplitLines(t) == SplitFrom(t, 1)

RECURSIVE BackslashesBefore(_, _)
BackslashesBefore(line, j) ==
    IF j < 1 \/ line[j] # "\\" THEN 0 ELSE 1 + BackslashesBefore(line, j - 1)

Continues(line) == BackslashesBefore(line, Len(line)) % 2 = 1

\* readline: a line ending in an odd number of backslashes continues on the
\* next one.  cur is the logical line being read, ls[i] the next physical one.
RECURSIVE ReadFrom(_, _, _)
ReadFrom(ls, i, cur) ==
    IF i > Len(ls) THEN <<cur>>
    ELSE IF Continues(cur) THEN ReadFrom(ls, i + 1, cur \o <<"\n">> \o ls[i])
    ELSE <<cur>> \o ReadFrom(ls, i + 1, ls[i])

ReadLines(ls) == ReadFrom(ls, 2, ls[1])

\* collapse_continuations: backslash-newline inside a logical line becomes
\* one space.
CollapseContinuations(line) == Replace(line, <<"\\", "\n">>, <<" ">>)

IsWord(line, word) ==
    LET p == FirstNonBlank(line, 1)
    IN  /\ p <= Len(line)
        /\ line[p] = word
        /\ (p = Len(line) \/ line[p + 1] \in Blank)

\* The index of the first endef line at or after ls[i], or 0.
RECURSIVE FindEndef(_, _)
FindEndef(ls, i) ==
    IF i > Len(ls) THEN 0
    ELSE IF IsWord(CollapseContinuations(ls[i]), "endef") THEN i
    ELSE FindEndef(ls, i + 1)

\* The lines ls[i..j], continuations collapsed, with newlines between them.
RECURSIVE JoinLines(_, _, _)
JoinLines(ls, i, j) ==
    IF i > j THEN <<>>
    ELSE IF i = j THEN CollapseContinuations(ls[i])
    ELSE CollapseContinuations(ls[i]) \o <<"\n">> \o JoinLines(ls, i + 1, j)

AssignOps == {"=", ":=", "+="}

Evaluated(V) == [fatal |-> FALSE, vars |-> V]
EvalFatal(V) == [fatal |-> TRUE, vars |-> V]

\* The host pastes the old and the new value for +=: an empty new value
\* changes nothing, and the space is written only after a non-empty old value.
Paste(old, new) ==
    IF new = <<>> THEN old
    ELSE IF old = <<>> THEN new
    ELSE old \o <<" ">> \o new

\* do_variable_definition for "define name op": = is recursive, := expands
\* now, += keeps the flavor the variable has.
Assign(V, n, op, body) ==
    LET now == HostExpand(body, V)
    IN  IF n = <<>> THEN EvalFatal(V)   \* no name: the block is not read as a define
        ELSE IF op = "=" THEN Evaluated(Bind(V, n, "recursive", body))
        ELSE IF op = ":="
             THEN IF IsFatal(now) THEN EvalFatal(V)
                  ELSE Evaluated(Bind(V, n, "simple", now))
        ELSE IF ~IsDefined(V, n) THEN Evaluated(Bind(V, n, "recursive", body))
        ELSE IF V[n].flavor = "recursive"
             THEN Evaluated(Bind(V, n, "recursive", Paste(V[n].value, body)))
        ELSE IF IsFatal(now) THEN EvalFatal(V)
        ELSE Evaluated(Bind(V, n, "simple", Paste(V[n].value, now)))

\* The name and the operator of "define name [op]".
DefineHead(line) ==
    LET rest == Strip(SubSeq(line, FirstNonBlank(line, 1) + 1, Len(line)))
        hasOp == rest # <<>> /\ rest[Len(rest)] \in AssignOps
    IN  [name |-> IF hasOp THEN Strip(SubSeq(rest, 1, Len(rest) - 1)) ELSE rest,
         op |-> IF hasOp THEN rest[Len(rest)] ELSE "="]

\* eval: the statements ls[i..], logical line by logical line.  A define
\* runs to the first line whose first word is endef; without one the host
\* stops (missing 'endef', unterminated 'define').  A line that is none of the
\* statements this module issues stops the host too (missing separator).
RECURSIVE EvalFrom(_, _, _)
EvalFrom(ls, i, V) ==
    IF i > Len(ls) THEN Evaluated(V)
    ELSE LET line == CollapseContinuations(ls[i])
             end == FindEndef(ls, i + 1)
             head == DefineHead(line)
             done == Assign(V, head.name, head.op, JoinLines(ls, i + 1, end - 1))
         IN  IF Strip(line) = <<>> THEN EvalFrom(ls, i + 1, V)
             ELSE IF IsWord(line, "define")
                  THEN IF end = 0 \/ done.fatal THEN EvalFatal(V)
                       ELSE EvalFrom(ls, end + 1, done.vars)
             ELSE IF IsWord(line, "undefine")
                  THEN IF head.name = <<>> THEN EvalFatal(V)
                       ELSE EvalFrom(ls, i + 1, Unbind(V, head.name))
             ELSE EvalFatal(V)

\* gmk_eval.
HostEval(t, V) == EvalFrom(ReadLines(SplitLines(t)), 1, V)

(***************************************************************************)
(* The bridge's primitives (core.py:61-72, 304-315).  The outcome of an    *)
(* operation: the exception it raised (or "none"), whether the host        *)
(* stopped under it, what it returned, how many times it called the host,  *)
(* how many buffers the host handed it and how many of them it freed, and  *)
(* the host's variable table afterwards.                                   *)
(***************************************************************************)
Res(exc, msg, fatal, rkind, result, calls, V) ==
    [exc |-> exc, msg |-> msg, fatal |-> fatal, rkind |-> rkind,
     result |-> result, calls |-> calls, allocs |-> 0, frees |-> 0,
     vars |-> V]

Stopped(r) == r.exc # "none" \/ r.fatal

\* freed counts the calls of _gmk_free: none for the null pointer, and none
\* when decode raises, because the free comes after it.
_gmk_char_to_string(buf) ==
    LET ret == Decode(buf.val)
    IN  IF buf.null THEN [exc |-> "none", val |-> <<>>, freed |-> 0]
        ELSE IF ret.exc # "none" THEN [exc |-> ret.exc, val |-> <<>>, freed |-> 0]
        ELSE [exc |-> "none", val |-> ret.val, freed |-> 1]

evaluate(s, V) ==
    LET e == Encode(s)
        h == HostEval(e.val, V)
    IN  IF e.exc # "none" THEN Res(e.exc, "", FALSE, "none", <<>>, 0, V)
        ELSE IF h.fatal THEN Res("none", "", TRUE, "none", <<>>, 1, V)
        ELSE Res("none", "", FALSE, "none", <<>>, 1, h.vars)

expand(s, V) ==
    LET e == Encode(s)
        h == HostExpand(e.val, V)
        d == _gmk_char_to_string(Buffer(h))
    IN  IF e.exc # "none" THEN Res(e.exc, "", FALSE, "none", <<>>, 0, V)
        ELSE IF IsFatal(h) THEN Res("none", "", TRUE, "none", <<>>, 1, V)
        ELSE IF d.exc # "none"
             THEN [Res(d.exc, "", FALSE, "none", <<>>, 1, V)
                      EXCEPT !.allocs = 1, !.frees = d.freed]
        ELSE [Res("none", "", FALSE, "str", d.val, 1, V)
                 EXCEPT !.allocs = 1, !.frees = d.freed]

(***************************************************************************)
(* class Variables (core.py:388-509).                                      *)
(***************************************************************************)
IllegalName(V) == Res("ValueError", "Illegal name", FALSE, "none", <<>>, 0, V)

origin(name, V) ==
    IF ~is_legal_name(name) THEN IllegalName(V)
    ELSE expand(<<"$", "(", "origin", " ">> \o name \o <<")">>, V)

flavor(name, V) ==
    IF ~is_legal_name(name) THEN IllegalName(V)
    ELSE expand(<<"$", "(", "flavor", " ">> \o name \o <<")">>, V)

defined(name, V) ==
    LET o == origin(name, V)
    IN  IF Stopped(o) THEN o
        ELSE [o EXCEPT !.rkind = "bool",
                       !.result = IF o.result # <<"undefined">>
                                  THEN <<"True">> ELSE <<"False">>]

\* get that trusts the expansion: an empty expansion takes the default
\* without asking whether the variable is defined.
get_NoDefinedCheck(name, default, expand_value, V) ==
    LET expand_func == IF ~expand_value THEN <<"value", " ">> ELSE <<>>
        ret == expand(<<"$", "(">> \o expand_func \o name \o <<")">>, V)
    IN  IF ~is_legal_name(name) THEN IllegalName(V)
        ELSE IF Stopped(ret) THEN ret
        ELSE IF ret.result = <<>> /\ default # <<>>
             THEN [ret EXCEPT !.result = default]
        ELSE ret

get(name, default, expand_value, V) ==
    LET expand_func == IF ~expand_value THEN <<"value", " ">> ELSE <<>>
        ret == expand(<<"$", "(">> \o expand_func \o name \o <<")">>, V)
        d == defined(name, V)
    IN  IF ~is_legal_name(name) THEN IllegalName(V)
        ELSE IF Stopped(ret) THEN ret
        ELSE IF ret.result = <<>> /\ default # <<>>
             THEN IF Stopped(d)
                  THEN [d EXCEPT !.calls = ret.calls + d.calls,
                                 !.allocs = ret.allocs + d.allocs,
                                 !.frees = ret.frees + d.frees]
                  ELSE IF d.result = <<"False">>
                       THEN [ret EXCEPT !.result = default,
                                        !.calls = ret.calls + d.calls,
                                        !.allocs = ret.allocs + d.allocs,
                                        !.frees = ret.frees + d.frees]
                  ELSE [ret EXCEPT !.calls = ret.calls + d.calls,
                                   !.allocs = ret.allocs + d.allocs,
                                   !.frees = ret.frees + d.frees]
        ELSE ret

set(name, value, flv, V) ==
    LET equals == IF flv = "recursive" THEN "=" ELSE ":="
        s == object_to_string(value)
    IN  IF ~is_legal_name(name) THEN IllegalName(V)
        ELSE IF flv \notin {"recursive", "simple"}
             THEN Res("ValueError", "Valid flavors are 'recursive' and 'simple'",
                      FALSE, "none", <<>>, 0, V)
        ELSE IF s.exc # "none" THEN Res(s.exc, "", FALSE, "none", <<>>, 0, V)
        ELSE evaluate(<<"define", " ">> \o name \o <<" ", equals, "\n">>
                      \o escape_string(s.val) \o <<"\n", "endef">>, V)

undefine(name, V) ==
    IF ~is_legal_name(name) THEN IllegalName(V)
    ELSE evaluate(<<"undefine", " ">> \o name, V)

append(name, value, V) ==
    LET s == object_to_string(value)
    IN  IF ~is_legal_name(name) THEN IllegalName(V)
        ELSE IF s.exc # "none" THEN Res(s.exc, "", FALSE, "none", <<>>, 0, V)
        ELSE evaluate(<<"define", " ">> \o name \o <<" ", "+=", "\n">>
                      \o escape_string(s.val) \o <<"\n", "endef">>, V)

__getitem__(name, V) == get(name, <<>>, TRUE, V)
__setitem__(name, value, V) == set(name, value, "recursive", V)
__delitem__(name, V) == undefine(name, V)
__contains__(name, V) == defined(name, V)

(***************************************************************************)
(* _real_callback (core.py:157-188): what the host calls for every         *)
(* exported function.  A callable is applied to the decoded arguments and  *)
(* either returns a value or raises; what it does is the caller's input.   *)
(***************************************************************************)
LAST_ERROR == <<"PYTHON_LAST_ERROR">>
PRINT_TRACEBACK == <<"PYTHON_PRINT_TRACEBACK">>

\* Exceptions that derive from BaseException and not from Exception.
NotAnException == {"SystemExit", "KeyboardInterrupt", "GeneratorExit"}

Returns(v) == [raises |-> "none", message |-> <<>>, ret |-> v]
Raises(kind, message) == [raises |-> kind, message |-> message, ret |-> PyNone]

\* "{}: {}".format(type(e).__name__, e)
FormatError(kind, message) == <<kind, ": ">> \o message

RECURSIVE DecodeArgs(_)
DecodeArgs(argv) ==
    IF argv = <<>> THEN "none"
    ELSE IF Decode(Head(argv)).exc # "none" THEN Decode(Head(argv)).exc
    ELSE DecodeArgs(Tail(argv))

\* The try block (core.py:172-178): the exception it ends with, or "none"
\* and the buffer made of the callable's result.
TryBlock(name, argv, does, registry) ==
    LET bad == DecodeArgs(argv)
        buf == _value_to_gmk_char(does.ret)
    IN  IF name \notin DOMAIN registry
        THEN [raises |-> "UnboundLocalError",
              message |-> <<"local variable 's' referenced before assignment">>,
              buf |-> NullBuffer, callee |-> "none"]
        ELSE IF bad # "none"
             THEN [raises |-> bad, message |-> <<"invalid start byte">>,
                   buf |-> NullBuffer, callee |-> "none"]
        ELSE IF does.raises # "none"
             THEN [raises |-> does.raises, message |-> does.message,
                   buf |-> NullBuffer, callee |-> registry[name]]
        ELSE IF buf.exc # "none"
             THEN [raises |-> buf.exc, message |-> <<"surrogates not allowed">>,
                   buf |-> NullBuffer, callee |-> registry[name]]
        ELSE [raises |-> "none", message |-> <<>>, buf |-> buf,
              callee |-> registry[name]]

\* The outcome of one invocation: exc is the exception that leaves
\* _real_callback ("none" when it returns), buf what it returns.
Called(exc, fatal, buf, raised, message, traceback, callee, V) ==
    [exc |-> exc, fatal |-> fatal, buf |-> buf, raised |-> raised,
     message |-> message, traceback |-> traceback, callee |-> callee,
     vars |-> V]

_real_callback(name, argv, does, registry, V) ==
    LET try == TryBlock(name, argv, does, registry)
        toggle == expand(<<"$", "(">> \o PRINT_TRACEBACK \o <<")">>, V)
        tb == toggle.result # <<>>
        err == fully_escape_string(FormatError(try.raises, try.message))
        def == evaluate(<<"define", " ">> \o LAST_ERROR \o <<"\n">> \o err
                        \o <<"\n", "endef">>, V)
        undef == evaluate(<<"undefine", " ">> \o LAST_ERROR, V)
    IN  IF try.raises = "none"
        THEN Called(undef.exc, undef.fatal, try.buf, "none", <<>>, FALSE,
                    try.callee, undef.vars)
        ELSE IF try.raises \in NotAnException
             THEN Called(try.raises, FALSE, NullBuffer, try.raises, try.message,
                         FALSE, try.callee, V)
        ELSE IF Stopped(toggle)
             THEN Called(toggle.exc, toggle.fatal, NullBuffer, try.raises,
                         try.message, FALSE, try.callee, V)
        ELSE Called(def.exc, def.fatal, NullBuffer, try.raises, try.message,
                    tb, try.callee, def.vars)

(***************************************************************************)
(* export (core.py:193-301).  A callable is its identity, its __name__ and *)
(* the parameters of its signature in order; a parameter is its kind and   *)
(* whether it has a default.                                               *)
(***************************************************************************)
GMK_FUNC_DEFAULT == 0
GMK_FUNC_NOEXPAND == 1

Positional == {"POSITIONAL_ONLY", "POSITIONAL_OR_KEYWORD"}
Param(kind, default) == [kind |-> kind, default |-> default]
Callable(id, name, params) == [id |-> id, name |-> name, params |-> params]
NoCallable == Callable("None", <<>>, <<>>)

\* One pass over sig.parameters.values(), as the loop of core.py:202-210.
RECURSIVE GuessFrom(_, _, _, _)
GuessFrom(params, i, min_args, max_args) ==
    IF i > Len(params) THEN [min_args |-> min_args, max_args |-> max_args]
    ELSE IF params[i].kind \in Positional
         THEN GuessFrom(params, i + 1,
                        IF ~params[i].default THEN min_args + 1 ELSE min_args,
                        IF max_args # -1 THEN max_args + 1 ELSE max_args)
    ELSE IF params[i].kind = "VAR_POSITIONAL"
         THEN GuessFrom(params, i + 1, min_args, -1)
    ELSE GuessFrom(params, i + 1, min_args, max_args)

\* guess_function_parameters that takes every positional parameter as
\* required.
guess_function_parameters_AllRequired(func) ==
    LET g == GuessFrom(func.params, 1, 0, 0)
        n == Cardinality({i \in DOMAIN func.params :
                             func.params[i].kind \in Positional})
    IN  [min_args |-> n, max_args |-> g.max_args]

guess_function_parameters(func) == GuessFrom(func.params, 1, 0, 0)

\* len() of an encoded name: "a{255}" stands for 255 letters.
RECURSIVE ByteLen(_, _)
ByteLen(b, i) ==
    IF i > Len(b) THEN 0
    ELSE (IF b[i] = "a{255}" THEN 255 ELSE 1) + ByteLen(b, i + 1)

Put(f, k, v) == [x \in DOMAIN f \cup {k} |-> IF x = k THEN v ELSE f[x]]

\* The tokens the host accepts in a function name: letters, digits, - and _.
FunctionNameChar ==
    {"f", "g", "k", "a{255}", "python-eval", "python-file", "python-exec",
     "python-library"}

\* gmk_add_function: the host stops on a name or on bounds it does not
\* accept; otherwise the entry replaces what the name had.
gmk_add_function(name, min_args, max_args, flags, table) ==
    IF \/ name = <<>>
       \/ \E i \in DOMAIN name : name[i] \notin FunctionNameChar
       \/ ByteLen(name, 1) > 255
       \/ min_args < 0 \/ min_args > 255
       \/ max_args < 0 \/ max_args > 255
       \/ (max_args # 0 /\ max_args < min_args)
    THEN [fatal |-> TRUE, table |-> table]
    ELSE [fatal |-> FALSE,
          table |-> Put(table, name, [min_args |-> min_args,
                                      max_args |-> max_args, flags |-> flags])]

Exported(exc, msg, fatal, key, registry, table) ==
    [exc |-> exc, msg |-> msg, fatal |-> fatal, key |-> key,
     registry |-> registry, table |-> table]

\* export that keeps the callable a name already has.
export_KeepsFirst(func, name, expand_flag, min_args, max_args, registry, table) ==
    LET _name == IF name = PyNone THEN func.name ELSE name.s
        flags == IF expand_flag THEN GMK_FUNC_DEFAULT ELSE GMK_FUNC_NOEXPAND
        guessed == guess_function_parameters(func)
        max == IF max_args # -1 THEN max_args
               ELSE IF guessed.max_args = -1 THEN 0 ELSE guessed.max_args
        min == IF min_args # -1 THEN min_args ELSE guessed.min_args
        key == Encode(_name)
        host == gmk_add_function(key.val, min, max, flags, table)
        Fails(kind, msg) == Exported(kind, msg, FALSE, <<>>, registry, table)
    IN  IF func = NoCallable
        THEN Fails("ValueError", "callback must not be None")
        ELSE IF max_args = -1 /\ guessed.max_args = 0
             THEN Fails("ValueError", "Function must take at least one parameter")
        ELSE IF max # 0 /\ max < min
             THEN Fails("ValueError", "max_args < min_args")
        ELSE IF max > 255 \/ min > 255 THEN Fails("ValueError", "too many args")
        ELSE IF min < 0 \/ max < 0 THEN Fails("ValueError", "negative args")
        ELSE IF key.exc # "none" THEN Fails(key.exc, "")
        ELSE IF ByteLen(key.val, 1) > 255 THEN Fails("ValueError", "name too long")
        ELSE Exported("none", "", host.fatal, key.val,
                      IF key.val \in DOMAIN registry THEN registry
                      ELSE Put(registry, key.val, func.id), host.table)

\* export(func, name=..., expand=..., min_args=..., max_args=...); with
\* func None it is the decorator form applied to None.
export(func, name, expand_flag, min_args, max_args, registry, table) ==
    LET _name == IF name = PyNone THEN func.name ELSE name.s
        flags == IF expand_flag THEN GMK_FUNC_DEFAULT ELSE GMK_FUNC_NOEXPAND
        guessed == guess_function_parameters(func)
        max == IF max_args # -1 THEN max_args
               ELSE IF guessed.max_args = -1 THEN 0 ELSE guessed.max_args
        min == IF min_args # -1 THEN min_args ELSE guessed.min_args
        key == Encode(_name)
        host == gmk_add_function(key.val, min, max, flags, table)
        Fails(kind, msg) == Exported(kind, msg, FALSE, <<>>, registry, table)
    IN  IF func = NoCallable
        THEN Fails("ValueError", "callback must not be None")
        ELSE IF max_args = -1 /\ guessed.max_args = 0
             THEN Fails("ValueError", "Function must take at least one parameter")
        ELSE IF max # 0 /\ max < min
             THEN Fails("ValueError", "max_args < min_args")
        ELSE IF max > 255 \/ min > 255 THEN Fails("ValueError", "too many args")
        ELSE IF min < 0 \/ max < 0 THEN Fails("ValueError", "negative args")
        ELSE IF key.exc # "none" THEN Fails(key.exc, "")
        ELSE IF ByteLen(key.val, 1) > 255 THEN Fails("ValueError", "name too long")
        ELSE Exported("none", "", host.fatal, key.val,
                      Put(registry, key.val, func.id), host.table)

(***************************************************************************)
(* python_file and python_exec (core.py:322-363) and the part of the       *)
(* process they work on: the descriptor table and sys.argv.  An open file  *)
(* is [file, id]; two descriptors are duplicates when they hold the same   *)
(* open file.  os.dup, TemporaryFile and open take the lowest free         *)
(* descriptor and raise OSError when the table is full.                    *)
(*                                                                         *)
(* An executed code is a sequence of steps, one per nesting level: code[i] *)
(* is what the code run at depth i does, and when it calls python-exec or  *)
(* python-file through the host, the rest of the sequence is the code that *)
(* call runs.                                                              *)
(***************************************************************************)
Descriptors == 0..(MaxOpenFiles - 1)
Closed == [file |-> "closed", id |-> 0]
StdFile(name) == [file |-> name, id |-> 0]
TmpFile(i) == [file |-> "tmp", id |-> i]
ScriptFile(i) == [file |-> "script", id |-> i]

StartFds ==
    [fd \in Descriptors |->
        CASE fd = 0 -> StdFile("stdin")
          [] fd = 1 -> StdFile("stdout")
          [] fd = 2 -> StdFile("stderr")
          [] OTHER -> Closed]

Free(F) == {fd \in Descriptors : F[fd] = Closed}
Open(F) == Descriptors \ Free(F)
LowestFree(F) == CHOOSE fd \in Free(F) : \A g \in Free(F) : fd <= g
\* An id no open file of the table has.
FreshId(F) ==
    1 + (CHOOSE m \in 0..(2 * MaxOpenFiles) :
            /\ \A fd \in Descriptors : F[fd].id <= m
            /\ m = 0 \/ \E fd \in Descriptors : F[fd].id = m)

Process(F, argv) == [fds |-> F, argv |-> argv]

\* One step of an executed code.
Step(kind, callee, script, then) ==
    [kind |-> kind, callee |-> callee, script |-> script, then |-> then]
Leaf(kind) == Step(kind, "none", "", "none")
CallExec(then) == Step("call", "python_exec", "", then)
CallFile(script, then) == Step("call", "python_file", script, then)

MissingScript == "missing.py"

\* The outcome of a call or of an executed code: the exception that leaves
\* it, what it wrote to descriptor 1, the process afterwards, and for every
\* call of python_exec/python_file that has returned, innermost first, the
\* process as it was entered and as it was left.
Ran(exc, out, P, trace) == [exc |-> exc, out |-> out, P |-> P, trace |-> trace]
Entry(callee, exc, before, after) ==
    [callee |-> callee, exc |-> exc, before |-> before, after |-> after]

\* Op applied to the value of x, x worked out once.
After(Op(_), x) == CHOOSE y \in {Op(v) : v \in {x}} : TRUE

RECURSIVE python_exec(_, _, _)
RECURSIVE python_file(_, _, _, _, _)

\* exec(code, python_globals, python_globals), compile included.  A call
\* made through the host comes back to the code as a value: what the callee
\* raised stays with _real_callback.
Exec(code, i, P) ==
    IF i > Len(code) THEN Ran("none", <<>>, P, <<>>)
    ELSE CASE code[i].kind = "pass" -> Ran("none", <<>>, P, <<>>)
           [] code[i].kind = "print" -> Ran("none", <<"a">>, P, <<>>)
           [] code[i].kind = "syntax" -> Ran("SyntaxError", <<>>, P, <<>>)
           [] code[i].kind = "raise" -> Ran("ValueError", <<>>, P, <<>>)
           [] code[i].kind = "exit" -> Ran("SystemExit", <<>>, P, <<>>)
           [] OTHER ->
                LET Back(r) ==
                        Ran(IF code[i].then = "raise" THEN "ValueError" ELSE "none",
                            <<>>, r.P, r.trace)
                IN  After(Back, IF code[i].callee = "python_exec"
                                THEN python_exec(code, i + 1, P)
                                ELSE python_file(code[i].script, <<>>, code, i + 1, P))

\* python_exec that leaves descriptor 1 on the capture file.
python_exec_NoRestore(code, i, P) ==
    IF Free(P.fds) = {} THEN Ran("OSError", <<>>, P, <<Entry("python_exec", "OSError", P, P)>>)
    ELSE LET stdout_original == LowestFree(P.fds)
             F1 == [P.fds EXCEPT ![stdout_original] = P.fds[1]]
             failed == Process(F1, P.argv)
         IN  IF Free(F1) = {}
             THEN Ran("OSError", <<>>, failed, <<Entry("python_exec", "OSError", P, failed)>>)
             ELSE LET capture == LowestFree(F1)
                      F2 == [F1 EXCEPT ![capture] = TmpFile(FreshId(F1))]
                      F3 == [F2 EXCEPT ![1] = F2[capture]]
                      Leave(r) ==
                          LET F4 == [r.P.fds EXCEPT ![capture] = Closed]
                              done == Process(F4, r.P.argv)
                          IN  Ran(r.exc, IF r.exc = "none" THEN r.out ELSE <<>>,
                                  done,
                                  Append(r.trace, Entry("python_exec", r.exc, P, done)))
                  IN  After(Leave, Exec(code, i, Process(F3, P.argv)))

python_exec(code, i, P) ==
    \* stdout_original = os.dup(1), before the try
    IF Free(P.fds) = {} THEN Ran("OSError", <<>>, P, <<Entry("python_exec", "OSError", P, P)>>)
    ELSE LET stdout_original == LowestFree(P.fds)
             F1 == [P.fds EXCEPT ![stdout_original] = P.fds[1]]
             \* TemporaryFile() raises: finally: os.dup2(stdout_original, 1)
             failed == Process([F1 EXCEPT ![1] = F1[stdout_original]], P.argv)
         IN  IF Free(F1) = {}
             THEN Ran("OSError", <<>>, failed, <<Entry("python_exec", "OSError", P, failed)>>)
             ELSE LET capture == LowestFree(F1)
                      F2 == [F1 EXCEPT ![capture] = TmpFile(FreshId(F1))]
                      \* os.dup2(capture.fileno(), 1)
                      F3 == [F2 EXCEPT ![1] = F2[capture]]
                      Leave(r) ==
                          \* leaving the with block closes capture
                          LET F4 == [r.P.fds EXCEPT ![capture] = Closed]
                              \* finally: os.dup2(stdout_original, 1)
                              F5 == [F4 EXCEPT ![1] = F4[stdout_original]]
                              done == Process(F5, r.P.argv)
                          IN  Ran(r.exc, IF r.exc = "none" THEN r.out ELSE <<>>,
                                  done,
                                  Append(r.trace, Entry("python_exec", r.exc, P, done)))
                  IN  After(Leave, Exec(code, i, Process(F3, P.argv)))

python_file(script, args, code, i, P) ==
    \* argv_original = sys.argv; stdout_original = os.dup(1), before the try
    IF Free(P.fds) = {} THEN Ran("OSError", <<>>, P, <<Entry("python_file", "OSError", P, P)>>)
    ELSE LET argv_original == P.argv
             stdout_original == LowestFree(P.fds)
             F1 == [P.fds EXCEPT ![stdout_original] = P.fds[1]]
             argv == <<script>> \o args
             failed == Process([F1 EXCEPT ![1] = F1[stdout_original]],
                               argv_original)
         IN  IF Free(F1) = {}
             THEN Ran("OSError", <<>>, failed, <<Entry("python_file", "OSError", P, failed)>>)
             ELSE LET capture == LowestFree(F1)
                      F2 == [F1 EXCEPT ![capture] = TmpFile(FreshId(F1))]
                      F3 == [F2 EXCEPT ![1] = F2[capture]]
                      \* open(script) as fp
                      canOpen == script # MissingScript /\ Free(F3) # {}
                      fp == LowestFree(F3)
                      F3a == [F3 EXCEPT ![fp] = ScriptFile(FreshId(F3))]
                      Leave(r) ==
                          \* leaving the with blocks closes fp and capture
                          LET F4 == [fd \in Descriptors |->
                                        IF fd = capture \/ (canOpen /\ fd = fp)
                                        THEN Closed ELSE r.P.fds[fd]]
                              \* finally: os.dup2(stdout_original, 1)
                              \*          sys.argv = argv_original
                              F5 == [F4 EXCEPT ![1] = F4[stdout_original]]
                              done == Process(F5, argv_original)
                          IN  Ran(r.exc, IF r.exc = "none" THEN r.out ELSE <<>>,
                                  done,
                                  Append(r.trace, Entry("python_file", r.exc, P, done)))
                  IN  After(Leave,
                            IF script = MissingScript
                            THEN Ran("FileNotFoundError", <<>>, Process(F3, argv), <<>>)
                            ELSE IF Free(F3) = {}
                            THEN Ran("OSError", <<>>, Process(F3, argv), <<>>)
                            ELSE Exec(code, i, Process(F3a, argv)))

(***************************************************************************)
(* _real_callback entered again (core.py:172-188): a callable that, while  *)
(* it runs, expands a text in which the host invokes the function again.   *)
(* plan[i] is what the callable at depth i does once the invocation it     *)
(* triggered, which does the rest of plan, has come back.  An invocation   *)
(* under which the host stopped ends everything above it.                  *)
(***************************************************************************)
RECURSIVE Reentered(_, _, _, _, _, _)
Reentered(name, argv, plan, i, registry, V) ==
    IF i = Len(plan) \/ name \notin DOMAIN registry \/ DecodeArgs(argv) # "none"
    THEN _real_callback(name, argv, plan[i], registry, V)
    ELSE LET Outer(inner) ==
                 IF inner.fatal THEN inner
                 ELSE _real_callback(name, argv, plan[i], registry, inner.vars)
         IN  After(Outer, Reentered(name, argv, plan, i + 1, registry, V))

(***************************************************************************)
(* The state machine.  last records the most recent operation.             *)
(***************************************************************************)
NoOp ==
    [op |-> "none", name |-> <<>>, value |-> PyNone, flv |-> "",
     default |-> <<>>, expand_value |-> TRUE, argv |-> <<>>,
     threw |-> "none", raised |-> "none", message |-> <<>>,
     exc |-> "none", msg |-> "",
     fatal |-> FALSE, rkind |-> "none", result |-> <<>>, calls |-> 0,
     allocs |-> 0, frees |-> 0, script |-> "", code |-> <<>>, trace |-> <<>>,
     nested |-> <<>>,
     traceback |-> FALSE, callee |-> "none", min_args |-> -1, max_args |-> -1]

\* The registry after the module is imported (core.py:317-383).
ModuleRegistry ==
    [n \in {<<"python-eval">>, <<"python-file">>, <<"python-exec">>,
            <<"python-library">>} |->
        CASE n = <<"python-eval">> -> "python_eval"
          [] n = <<"python-file">> -> "python_file"
          [] n = <<"python-exec">> -> "python_exec"
          [] OTHER -> "python_library"]

\* What the four exports of the module gave the host.
ModuleFunctions ==
    [n \in DOMAIN ModuleRegistry |->
        [min_args |-> 1,
         max_args |-> IF n = <<"python-file">> THEN 0 ELSE 1,
         flags |-> GMK_FUNC_DEFAULT]]

Start ==
    /\ vars = NoVars
    /\ hostAlive = TRUE
    /\ _callback_registry = ModuleRegistry
    /\ gmk_functions = ModuleFunctions
    /\ last = NoOp
    /\ fds = StartFds
    /\ sys_argv = <<"make">>

(***************************************************************************)
(* Operations of class Variables, called by a script.  Each action takes   *)
(* the names and values it is tried with.                                  *)
(***************************************************************************)
FacadeStep(op, name, value, flv, default, ev, r) ==
    /\ vars' = r.vars
    /\ hostAlive' = ~r.fatal
    /\ last' = [NoOp EXCEPT !.op = op, !.name = name, !.value = value,
                            !.flv = flv, !.default = default,
                            !.expand_value = ev, !.exc = r.exc, !.msg = r.msg,
                            !.fatal = r.fatal, !.rkind = r.rkind,
                            !.result = r.result, !.calls = r.calls,
                            !.allocs = r.allocs, !.frees = r.frees]
    /\ UNCHANGED <<_callback_registry, gmk_functions, obj, fds, sys_argv>>

Defaults == {<<>>, <<"d">>}
Flavors == {"recursive", "simple", "immediate"}

Get(Names) ==
    \E n \in Names, d \in Defaults, e \in BOOLEAN :
        /\ hostAlive
        /\ \E r \in {get(n, d, e, vars)} :
               FacadeStep("get", n, PyNone, "", d, e, r)

Set(Names, Values) ==
    \E n \in Names, v \in Values, f \in Flavors :
        /\ hostAlive
        /\ \E r \in {set(n, v, f, vars)} :
               FacadeStep("set", n, v, f, <<>>, TRUE, r)

Undefine(Names) ==
    \E n \in Names :
        /\ hostAlive
        /\ \E r \in {undefine(n, vars)} :
               FacadeStep("undefine", n, PyNone, "", <<>>, TRUE, r)

AppendValue(Names, Values) ==
    \E n \in Names, v \in Values :
        /\ hostAlive
        /\ IsDefined(vars, n) => Len(vars[n].value) + 2 <= MaxStoreLen
        /\ \E r \in {append(n, v, vars)} :
               FacadeStep("append", n, v, "", <<>>, TRUE, r)

Origin(Names) ==
    \E n \in Names :
        /\ hostAlive
        /\ \E r \in {origin(n, vars)} :
               FacadeStep("origin", n, PyNone, "", <<>>, TRUE, r)

Flavor(Names) ==
    \E n \in Names :
        /\ hostAlive
        /\ \E r \in {flavor(n, vars)} :
               FacadeStep("flavor", n, PyNone, "", <<>>, TRUE, r)

Defined(Names) ==
    \E n \in Names :
        /\ hostAlive
        /\ \E r \in {defined(n, vars)} :
               FacadeStep("defined", n, PyNone, "", <<>>, TRUE, r)

GetItem(Names) ==
    \E n \in Names :
        /\ hostAlive
        /\ \E r \in {__getitem__(n, vars)} :
               FacadeStep("__getitem__", n, PyNone, "", <<>>, TRUE, r)

SetItem(Names, Values) ==
    \E n \in Names, v \in Values :
        /\ hostAlive
        /\ \E r \in {__setitem__(n, v, vars)} :
               FacadeStep("__setitem__", n, v, "recursive", <<>>, TRUE, r)

DelItem(Names) ==
    \E n \in Names :
        /\ hostAlive
        /\ \E r \in {__delitem__(n, vars)} :
               FacadeStep("__delitem__", n, PyNone, "", <<>>, TRUE, r)

Contains(Names) ==
    \E n \in Names :
        /\ hostAlive
        /\ \E r \in {__contains__(n, vars)} :
               FacadeStep("__contains__", n, PyNone, "", <<>>, TRUE, r)

FacadeOps ==
    {"get", "set", "undefine", "append", "origin", "flavor", "defined",
     "__getitem__", "__setitem__", "__delitem__", "__contains__"}

(***************************************************************************)
(* SpecFacade: a script works on two variables with legal names.           *)
(***************************************************************************)
LegalNames == {<<"a">>, <<"b">>}

SetValues ==
    {PyTrue, PyFalse, PyNone, PyStr(<<>>), PyStr(<<"a">>), PyStr(<<"endef">>),
     PyStr(<<"a", "\\">>), PyStr(<<"$", "b">>), PyBytes(<<"a">>),
     PyBuffer(<<"a">>)}
AppendValues == {PyStr(<<"a">>), PyBuffer(<<"a">>)}

FacadeInit == Start /\ obj = PyNone

FacadeNext ==
    \/ Get(LegalNames)
    \/ Set(LegalNames, SetValues)
    \/ Undefine(LegalNames)
    \/ AppendValue(LegalNames, AppendValues)
    \/ Origin(LegalNames)
    \/ Flavor(LegalNames)
    \/ Defined(LegalNames)
    \/ GetItem(LegalNames)
    \/ SetItem(LegalNames, SetValues)
    \/ DelItem(LegalNames)
    \/ Contains(LegalNames)

SpecFacade == FacadeInit /\ [][FacadeNext]_allvars

(***************************************************************************)
(* SpecNames: a script gives the same operations any name: a legal one,    *)
(* the empty one, and names holding each of the illegal characters.        *)
(***************************************************************************)
IllegalNames ==
    {<<c>> : c \in ILLEGAL_VAR_CHARS} \cup {<<"a", " ">>, <<"$", "a">>, <<"a", ")">>}
AnyNames == {<<"a">>, <<>>} \cup IllegalNames
NameValues == {PyStr(<<"a">>), PyNone}

NamesNext ==
    \/ Get(AnyNames)
    \/ Set(AnyNames, NameValues)
    \/ Undefine(AnyNames)
    \/ AppendValue(AnyNames, NameValues)
    \/ Origin(AnyNames)
    \/ Flavor(AnyNames)
    \/ Defined(AnyNames)
    \/ GetItem(AnyNames)
    \/ SetItem(AnyNames, NameValues)
    \/ DelItem(AnyNames)
    \/ Contains(AnyNames)

SpecNames == FacadeInit /\ [][NamesNext]_allvars

(***************************************************************************)
(* Spec: the host invokes exported functions, one invocation at a time,    *)
(* and between invocations a script sets or clears the traceback toggle    *)
(* and reads the error variable.                                           *)
(***************************************************************************)
InvokeNames == {<<"python-eval">>, <<"nosuch">>}
ArgLists == {<<>>, << <<"a">> >>, << <<"0xC3">> >>}

ReturnValues ==
    {PyTrue, PyFalse, PyNone, PyStr(<<>>), PyStr(<<"a">>), PyStr(<<"U+00E9">>),
     PyStr(<<"U+DC80">>), PyBytes(<<>>), PyBytes(<<"0xC3">>),
     PyByteArray(<<"a">>), PyBuffer(<<"a">>), PyObject(<<"a">>),
     PyObject(<<"U+DC80">>), PyBadObject}

Messages ==
    {<<>>, <<"boom">>, <<"endef">>, <<"$">>, <<"a", "\\">>,
     <<"\\", "\n", "a">>, <<"U+DC80">>}

Behaviours ==
    {Returns(v) : v \in ReturnValues}
    \cup {Raises("ValueError", m) : m \in Messages}
    \cup {Raises("SystemExit", <<"1">>)}

ToggleValues == {PyTrue, PyNone}

\* The exception the callable itself raised, "none" when it returned or was
\* never called.
Threw(name, argv, does, registry) ==
    IF name \in DOMAIN registry /\ DecodeArgs(argv) = "none"
    THEN does.raises ELSE "none"

InvokeWith(Names, Args, Does) ==
    \E n \in Names, a \in Args, does \in Does :
        \E c \in {_real_callback(n, a, does, _callback_registry, vars)} :
            /\ hostAlive
            /\ vars' = c.vars
            /\ hostAlive' = ~c.fatal
            /\ last' = [NoOp EXCEPT
                          !.op = "invoke", !.name = n, !.argv = a,
                          !.value = does.ret,
                          !.threw = Threw(n, a, does, _callback_registry),
                          !.raised = c.raised, !.message = c.message,
                          !.exc = c.exc, !.fatal = c.fatal,
                          !.rkind = IF c.buf.null THEN "null" ELSE "buffer",
                          !.result = c.buf.val, !.traceback = c.traceback,
                          !.callee = c.callee]
            /\ UNCHANGED <<_callback_registry, gmk_functions, obj, fds, sys_argv>>

Invoke == InvokeWith(InvokeNames, ArgLists, Behaviours)

SetToggle == Set({PRINT_TRACEBACK}, ToggleValues)

ClearToggle == Undefine({PRINT_TRACEBACK})

ReadLastError == GetItem({LAST_ERROR})

Init == Start /\ obj = PyNone

Next ==
    \/ Invoke
    \/ SetToggle
    \/ ClearToggle
    \/ ReadLastError

Spec == Init /\ [][Next]_allvars

(***************************************************************************)
(* SpecNested: the host invokes an exported function whose callable has    *)
(* the host invoke it again, to a depth of MaxDepth, each level returning  *)
(* or raising; a script sets or clears the traceback toggle and reads the  *)
(* error variable in between.                                              *)
(***************************************************************************)
NestedDoes ==
    {Returns(PyStr(<<"a">>)), Raises("ValueError", <<"boom">>),
     Raises("ValueError", <<"endef">>), Raises("SystemExit", <<"1">>)}

RECURSIVE PlansOfDepth(_)
PlansOfDepth(d) ==
    IF d = 1 THEN {<<does>> : does \in NestedDoes}
    ELSE {<<does>> \o rest : does \in NestedDoes, rest \in PlansOfDepth(d - 1)}

Plans == UNION {PlansOfDepth(d) : d \in 1..MaxDepth}

InvokeNested ==
    \E n \in {<<"python-eval">>}, a \in {<< <<"a">> >>}, plan \in Plans :
        \E c \in {Reentered(n, a, plan, 1, _callback_registry, vars)} :
            /\ hostAlive
            /\ vars' = c.vars
            /\ hostAlive' = ~c.fatal
            /\ last' = [NoOp EXCEPT
                          !.op = "invoke", !.name = n, !.argv = a,
                          !.value = plan[1].ret,
                          !.threw = Threw(n, a, plan[1], _callback_registry),
                          !.raised = c.raised, !.message = c.message,
                          !.exc = c.exc, !.fatal = c.fatal,
                          !.rkind = IF c.buf.null THEN "null" ELSE "buffer",
                          !.result = c.buf.val, !.traceback = c.traceback,
                          !.callee = c.callee, !.nested = Tail(plan)]
            /\ UNCHANGED <<_callback_registry, gmk_functions, obj, fds, sys_argv>>

NestedNext ==
    \/ InvokeNested
    \/ SetToggle
    \/ ClearToggle
    \/ ReadLastError

SpecNested == Init /\ [][NestedNext]_allvars

(***************************************************************************)
(* SpecCodec: the codec's pure functions, each applied to an input drawn   *)
(* at the start.  A name is the input of is_legal_name.                    *)
(***************************************************************************)
NameChar == {"a", "b"} \cup ILLEGAL_VAR_CHARS

CodecInputs ==
    PyValues(MaxLen)
    \cup {[kind |-> "name", s |-> n] : n \in SeqsUpTo(NameChar, MaxNameLen)}

CodecInit == Start /\ obj \in CodecInputs

Bool(b) == IF b THEN <<"True">> ELSE <<"False">>

CodecStep(op, exc, rkind, result) ==
    /\ last' = [NoOp EXCEPT !.op = op, !.value = obj, !.exc = exc,
                            !.rkind = rkind, !.result = result]
    /\ UNCHANGED <<vars, hostAlive, _callback_registry, gmk_functions, obj, fds, sys_argv>>

Display ==
    /\ obj.kind # "name"
    /\ \E r \in {object_to_string(obj)} :
           CodecStep("object_to_string", r.exc,
                     IF r.exc = "none" THEN "str" ELSE "none", r.val)

HostEncode ==
    /\ obj.kind # "name"
    /\ \E r \in {_value_to_gmk_char(obj)} :
           CodecStep("_value_to_gmk_char", r.exc,
                     IF r.exc # "none" THEN "none"
                     ELSE IF r.null THEN "null" ELSE "buffer", r.val)

LegalName ==
    /\ obj.kind = "name"
    /\ CodecStep("is_legal_name", "none", "bool", Bool(is_legal_name(obj.s)))

Escape ==
    /\ obj.kind = "str"
    /\ CodecStep("escape_string", "none", "str", escape_string(obj.s))

FullyEscape ==
    /\ obj.kind = "str"
    /\ CodecStep("fully_escape_string", "none", "str", fully_escape_string(obj.s))

\* core.py:183-184 on a text: the text is fully escaped, stored with a
\* define block and read back.
Freeze ==
    /\ obj.kind = "str"
    /\ hostAlive
    /\ \E def \in {evaluate(<<"define", " ">> \o LAST_ERROR \o <<"\n">>
                             \o fully_escape_string(obj.s) \o <<"\n", "endef">>,
                             vars)} :
       \E r \in {IF Stopped(def) THEN def ELSE __getitem__(LAST_ERROR, def.vars)} :
           /\ vars' = r.vars
           /\ hostAlive' = ~r.fatal
           /\ last' = [NoOp EXCEPT !.op = "freeze", !.value = obj,
                                   !.exc = r.exc, !.fatal = r.fatal,
                                   !.rkind = r.rkind, !.result = r.result]
           /\ UNCHANGED <<_callback_registry, gmk_functions, obj, fds, sys_argv>>

CodecNext ==
    \/ Display
    \/ HostEncode
    \/ LegalName
    \/ Escape
    \/ FullyEscape
    \/ Freeze

SpecCodec == CodecInit /\ [][CodecNext]_allvars

(***************************************************************************)
(* SpecBuffers: the makefile binds variables to byte strings, text or not, *)
(* and a script expands texts and reads the variables.                     *)
(***************************************************************************)
MakefileValues == {<<>>, <<"a">>, <<"0xC3">>, <<"0xC3", "0xA9">>}

MakefileDefine ==
    \E n \in LegalNames, f \in {"recursive", "simple"}, b \in MakefileValues :
        /\ hostAlive
        /\ vars' = Bind(vars, n, f, b)
        /\ last' = [NoOp EXCEPT !.op = "makefile", !.name = n, !.flv = f]
        /\ UNCHANGED <<hostAlive, _callback_registry, gmk_functions, obj, fds, sys_argv>>

ExpandTexts ==
    {<<>>, <<"a">>, <<"$", "(", "a", ")">>, <<"$", "(", "b", ")">>,
     <<"$", "(", "a">>, <<"U+DC80">>}

Expand ==
    \E t \in ExpandTexts :
        /\ hostAlive
        /\ \E r \in {expand(t, vars)} :
               FacadeStep("expand", <<>>, PyStr(t), "", <<>>, TRUE, r)

BuffersNext ==
    \/ MakefileDefine
    \/ Expand
    \/ Get(LegalNames)
    \/ Origin(LegalNames)
    \/ Flavor(LegalNames)
    \/ Defined(LegalNames)
    \/ GetItem(LegalNames)
    \/ Contains(LegalNames)

SpecBuffers == FacadeInit /\ [][BuffersNext]_allvars

(***************************************************************************)
(* SpecExec: the host calls python-exec and python-file, one call after    *)
(* another, with codes that return, print, fail to compile, raise, exit or *)
(* call python-exec or python-file again through the host.                 *)
(***************************************************************************)
Leaves == {Leaf(k) : k \in {"print", "syntax", "raise", "exit"}}
Scripts == {"s.py", MissingScript}
Calls ==
    {CallExec(t) : t \in {"pass", "raise"}}
    \cup {CallFile(f, "pass") : f \in Scripts}

RECURSIVE CodesOfDepth(_)
CodesOfDepth(d) ==
    IF d = 1 THEN {<<l>> : l \in Leaves}
    ELSE {<<c>> \o rest : c \in Calls, rest \in CodesOfDepth(d - 1)}

Codes == UNION {CodesOfDepth(d) : d \in 1..MaxDepth}

ExecStep(op, script, args, code, r) ==
    /\ fds' = r.P.fds
    /\ sys_argv' = r.P.argv
    /\ last' = [NoOp EXCEPT !.op = op, !.script = script, !.argv = args,
                            !.code = code, !.exc = r.exc,
                            !.rkind = IF r.exc = "none" THEN "bytes" ELSE "none",
                            !.result = r.out, !.trace = r.trace]
    /\ UNCHANGED <<vars, hostAlive, _callback_registry, gmk_functions, obj>>

PythonExec ==
    \E code \in Codes :
        \E r \in {python_exec(code, 1, Process(fds, sys_argv))} :
            ExecStep("python_exec", "", <<>>, code, r)

PythonFile ==
    \E script \in Scripts, args \in {<<"x">>}, code \in Codes :
        /\ script = MissingScript => code = <<Leaf("print")>>
        /\ \E r \in {python_file(script, args, code, 1, Process(fds, sys_argv))} :
               ExecStep("python_file", script, args, code, r)

ExecNext ==
    \/ PythonExec
    \/ PythonFile

SpecExec == FacadeInit /\ [][ExecNext]_allvars

(***************************************************************************)
(* SpecArity: export is given one callable, drawn at the start from every  *)
(* signature Python accepts up to MaxParams parameters, with one or both   *)
(* bounds left to be guessed.                                              *)
(***************************************************************************)
Params ==
    {Param(k, d) : k \in Positional \cup {"KEYWORD_ONLY"}, d \in BOOLEAN}
    \cup {Param("VAR_POSITIONAL", FALSE), Param("VAR_KEYWORD", FALSE)}

KindRank(kind) ==
    CASE kind = "POSITIONAL_ONLY" -> 1
      [] kind = "POSITIONAL_OR_KEYWORD" -> 2
      [] kind = "VAR_POSITIONAL" -> 3
      [] kind = "KEYWORD_ONLY" -> 4
      [] OTHER -> 5

\* inspect.Signature: kinds in order, one *args and one **kwargs at most,
\* no positional parameter without a default after one with a default.
ValidSignature(sig) ==
    \A i, j \in DOMAIN sig :
        i < j =>
            /\ KindRank(sig[i].kind) <= KindRank(sig[j].kind)
            /\ sig[i].kind \in {"VAR_POSITIONAL", "VAR_KEYWORD"}
                   => sig[i].kind # sig[j].kind
            /\ (sig[i].kind \in Positional /\ sig[j].kind \in Positional
                /\ sig[i].default) => sig[j].default

Signatures == {sig \in SeqsUpTo(Params, MaxParams) : ValidSignature(sig)}

ArityInit ==
    /\ Start
    /\ obj \in {Callable("f", <<"f">>, sig) : sig \in Signatures}

ExportStep(func, name, min_args, max_args, r) ==
    /\ _callback_registry' = r.registry
    /\ gmk_functions' = r.table
    /\ hostAlive' = ~r.fatal
    /\ last' = [NoOp EXCEPT !.op = "export", !.name = r.key, !.value = name,
                            !.callee = func.id, !.exc = r.exc, !.msg = r.msg,
                            !.fatal = r.fatal, !.min_args = min_args,
                            !.max_args = max_args]
    /\ UNCHANGED <<vars, obj, fds, sys_argv>>

ExportGuessed ==
    \E min_args \in {-1, 1}, max_args \in {-1, 2}, e \in BOOLEAN :
        /\ hostAlive
        /\ min_args = -1 \/ max_args = -1
        /\ \E r \in {export(obj, PyNone, e, min_args, max_args,
                            _callback_registry, gmk_functions)} :
               ExportStep(obj, PyNone, min_args, max_args, r)

ArityNext == ExportGuessed

SpecArity == ArityInit /\ [][ArityNext]_allvars

(***************************************************************************)
(* SpecExport: a script exports callables under given and default names    *)
(* with given and guessed bounds, and the host invokes exported names.     *)
(***************************************************************************)
ExportCallables ==
    {Callable("one", <<"f">>, <<Param("POSITIONAL_OR_KEYWORD", FALSE)>>),
     Callable("two", <<"f">>, <<Param("POSITIONAL_OR_KEYWORD", FALSE),
                                Param("POSITIONAL_OR_KEYWORD", TRUE)>>),
     Callable("kwonly", <<"k">>, <<Param("KEYWORD_ONLY", FALSE)>>),
     Callable("lambda", <<"<lambda>">>, <<Param("POSITIONAL_OR_KEYWORD", FALSE)>>),
     NoCallable}

ExportNames ==
    {PyNone, PyStr(<<"python-eval">>), PyStr(<<"a{255}", "f">>),
     PyStr(<<"U+DC80">>)}

ArgBounds == {<<-1, -1>>, <<1, 2>>, <<2, 1>>, <<256, 0>>, <<-2, 1>>}

Export ==
    \E func \in ExportCallables, name \in ExportNames, b \in ArgBounds :
        /\ hostAlive
        /\ \E r \in {export(func, name, TRUE, b[1], b[2],
                            _callback_registry, gmk_functions)} :
               ExportStep(func, name, b[1], b[2], r)

DispatchNames == {<<"f">>, <<"k">>, <<"python-eval">>}

Dispatch == InvokeWith(DispatchNames, {<<>>}, {Returns(PyNone)})

ExportNext ==
    \/ Export
    \/ Dispatch

SpecExport == FacadeInit /\ [][ExportNext]_allvars

(***************************************************************************)
(* The claims.                                                             *)
(***************************************************************************)
HasIllegalChar(name) == \E i \in DOMAIN name : name[i] \in ILLEGAL_VAR_CHARS

\* What the host holds for $(n), as text.
Expansion(n, V) == Decode(HostExpand(<<"$", "(">> \o n \o <<")">>, V)).val

\* C1: after an invocation in which the callable raised, the host got null,
\* no exception left _real_callback, and PYTHON_LAST_ERROR reads
\* '<exception-kind>: <message>'; after any invocation PYTHON_LAST_ERROR is
\* defined iff that invocation failed.
C1_ErrorVariableTracksLastInvocation ==
    last.op = "invoke" =>
        /\ last.threw # "none" =>
              /\ last.exc = "none"
              /\ hostAlive
              /\ last.rkind = "null"
              /\ IsDefined(vars, LAST_ERROR)
              /\ Expansion(LAST_ERROR, vars) = FormatError(last.threw, last.message)
        /\ IsDefined(vars, LAST_ERROR) <=> last.raised # "none"

\* C2: no invocation lets an exception out of _real_callback or stops the
\* host: control returns with a buffer or null, and an unregistered name
\* returns null.
C2_NothingPropagates ==
    last.op = "invoke" =>
        /\ last.exc = "none"
        /\ hostAlive
        /\ last.rkind \in {"null", "buffer"}
        /\ last.name \notin DOMAIN _callback_registry => last.rkind = "null"

\* C3: a facade operation given a name with an illegal character raises the
\* illegal-name error without one call of evaluate or expand, and leaves the
\* host's variables as they were, whatever the flavor given to set.
C3_IllegalNameRaisesFirst ==
    [][(last'.op \in FacadeOps /\ HasIllegalChar(last'.name)) =>
          /\ last'.exc = "ValueError"
          /\ last'.msg = "Illegal name"
          /\ last'.calls = 0
          /\ vars' = vars
          /\ hostAlive' = hostAlive]_allvars

C3_Witness ==
    /\ last.op = "set"
    /\ last.flv = "immediate"
    /\ HasIllegalChar(last.name)
    /\ last.exc = "ValueError"
    /\ last.msg = "Illegal name"
    /\ last.calls = 0
    /\ vars # NoVars

\* C4: the empty name is not legal: is_legal_name holds iff the name is
\* non-empty and has no illegal character, and a facade operation given the
\* empty name raises the illegal-name error without calling the host.
C4_EmptyNameIllegal ==
    last.op \in FacadeOps =>
        /\ is_legal_name(last.name) <=>
              (last.name # <<>> /\ ~HasIllegalChar(last.name))
        /\ last.name = <<>> =>
              /\ last.exc = "ValueError"
              /\ last.msg = "Illegal name"
              /\ last.calls = 0
              /\ hostAlive

\* C5: get with a non-empty default returns the default when the variable
\* is undefined, the empty string when it is defined and reads empty, and
\* what it reads otherwise.
C5_GetDefault ==
    (last.op = "get" /\ last.default # <<>> /\ last.exc = "none" /\ hostAlive) =>
        LET n == last.name
            reads == IF ~IsDefined(vars, n) THEN <<>>
                     ELSE IF last.expand_value THEN Expansion(n, vars)
                     ELSE Decode(vars[n].value).val
        IN  /\ last.rkind = "str"
            /\ ~IsDefined(vars, n) => last.result = last.default
            /\ (IsDefined(vars, n) /\ reads = <<>>) => last.result = <<>>
            /\ reads # <<>> => last.result = reads

C5_Witness ==
    /\ last.op = "get"
    /\ last.default = <<"d">>
    /\ last.expand_value
    /\ hostAlive
    /\ last.exc = "none"
    /\ IsDefined(vars, last.name)
    /\ vars[last.name].value # <<>>
    /\ last.result = <<>>

\* C6: right after undefine(n) defined(n) is false, right after set(n, v,
\* flavor) with a recognized flavor it is true for every value v, the same
\* through del vars[n] and vars[n] = v, and an operation on one name leaves
\* defined(m) of every other name as it was.
C6_DefinedFollowsSetAndUndefine ==
    [][last'.op \in FacadeOps =>
          /\ last'.op \in {"undefine", "__delitem__"} =>
                /\ hostAlive'
                /\ __contains__(last'.name, vars').result = <<"False">>
          /\ (last'.op \in {"set", "__setitem__"}
              /\ last'.flv \in {"recursive", "simple"}) =>
                /\ hostAlive'
                /\ __contains__(last'.name, vars').result = <<"True">>
          /\ \A m \in LegalNames \ {last'.name} :
                defined(m, vars').result = defined(m, vars).result]_allvars

\* C7: for a value whose display string has no endef, no backslash-newline
\* and no dollar, set(n, v, 'simple') then get(n) returns the display string.
C7_SimpleRoundTrip ==
    LET s == object_to_string(last.value)
        plain == /\ s.exc = "none"
                 /\ \A i \in DOMAIN s.val : s.val[i] \notin {"endef", "$"}
                 /\ \A i \in 1..(Len(s.val) - 1) :
                        ~(s.val[i] = "\\" /\ s.val[i + 1] = "\n")
    IN  (last.op = "set" /\ last.flv = "simple" /\ plain) =>
            /\ last.exc = "none"
            /\ hostAlive
            /\ get(last.name, <<>>, TRUE, vars).result = s.val

\* C8: the full escape freezes a text as written: expanding
\* fully_escape_string(s) gives s back, and a text stored in
\* PYTHON_LAST_ERROR that way reads back as itself.
C8_FullEscapeFreezes ==
    /\ last.op = "fully_escape_string" =>
          Decode(HostExpand(Encode(last.result).val, NoVars)).val = last.value.s
    /\ last.op = "freeze" =>
          /\ last.exc = "none"
          /\ hostAlive
          /\ last.result = last.value.s

\* C9: object_to_string returns a string for every kind of value and raises
\* nothing; False, None and a value with no conversion give the empty string.
C9_DisplayNeverRaises ==
    last.op = "object_to_string" =>
        /\ last.exc = "none"
        /\ last.rkind = "str"
        /\ last.value.kind \in {"False", "None", "badobject"} => last.result = <<>>
        /\ last.value.kind = "True" => last.result = <<"1">>

\* C10: _value_to_gmk_char returns null exactly for False, None and a value
\* with no conversion and raises nothing; True gives "1", an empty text or
\* byte sequence a non-null empty buffer, bytes are copied and text encoded.
C10_NullOnlyForNoValue ==
    last.op = "_value_to_gmk_char" =>
        LET o == last.value
            noConversion == \/ o.kind \in {"False", "None", "badobject"}
                            \/ o.kind \in TextKinds /\ Encode(o.s).exc # "none"
        IN  /\ last.exc = "none"
            /\ last.rkind = "null" <=> noConversion
            /\ o.kind = "True" => last.result = <<"1">>
            /\ o.kind \in ByteKinds => last.result = o.s
            /\ (o.kind \in TextKinds /\ ~noConversion) =>
                  last.result = Encode(o.s).val

\* C11: with a bound left unspecified export registers min_args as the
\* number of positional parameters without a default and max_args as the
\* number of positional parameters, 0 when there is a variadic positional
\* one; keyword-only parameters do not count; a callable with no positional
\* parameter of any kind is rejected and not registered.
C11_ArityInference ==
    [][last'.op = "export" =>
          LET positional == {i \in DOMAIN obj.params :
                                obj.params[i].kind \in Positional}
              required == {i \in positional : ~obj.params[i].default}
              variadic == \E i \in DOMAIN obj.params :
                              obj.params[i].kind = "VAR_POSITIONAL"
              nothing == positional = {} /\ ~variadic
          IN  /\ (last'.max_args = -1 /\ nothing) =>
                    /\ last'.exc = "ValueError"
                    /\ last'.msg = "Function must take at least one parameter"
                    /\ _callback_registry' = _callback_registry
                    /\ gmk_functions' = gmk_functions
              /\ (last'.max_args = -1 /\ last'.min_args = -1 /\ ~nothing) =>
                    last'.exc = "none"
              /\ last'.exc = "none" =>
                    /\ hostAlive'
                    /\ _callback_registry'[obj.name] = obj.id
                    /\ last'.min_args = -1 =>
                          gmk_functions'[obj.name].min_args = Cardinality(required)
                    /\ last'.max_args = -1 =>
                          gmk_functions'[obj.name].max_args =
                              IF variadic THEN 0 ELSE Cardinality(positional)]_allvars

C11_Witness ==
    /\ last.op = "export"
    /\ last.min_args = -1
    /\ last.max_args = -1
    /\ obj.params = <<Param("POSITIONAL_OR_KEYWORD", FALSE),
                      Param("POSITIONAL_OR_KEYWORD", FALSE),
                      Param("POSITIONAL_OR_KEYWORD", TRUE)>>
    /\ obj.name \in DOMAIN gmk_functions
    /\ gmk_functions[obj.name].min_args = 2
    /\ gmk_functions[obj.name].max_args = 3

\* C12: a call of export either raises and leaves the registry and the
\* host's function table as they were, or inserts the callable and registers
\* it with the host with bounds in 0..255, min_args <= max_args unless
\* max_args is 0, and a name of at most 255 bytes; the registry's keys are
\* the names registered with the host.
C12_RegistrationAllOrNothing ==
    [][last'.op = "export" =>
          /\ \/ /\ last'.exc # "none"
                /\ hostAlive'
                /\ _callback_registry' = _callback_registry
                /\ gmk_functions' = gmk_functions
             \/ /\ last'.exc = "none"
                /\ hostAlive'
                /\ last'.name \in DOMAIN _callback_registry'
                /\ last'.name \in DOMAIN gmk_functions'
                /\ _callback_registry'[last'.name] = last'.callee
                /\ ByteLen(last'.name, 1) <= 255
          /\ DOMAIN _callback_registry' = DOMAIN gmk_functions'
          /\ \A n \in DOMAIN gmk_functions' :
                LET f == gmk_functions'[n]
                IN  /\ f.min_args \in 0..255
                    /\ f.max_args \in 0..255
                    /\ f.max_args = 0 \/ f.min_args <= f.max_args]_allvars

\* C16: a successful export under a name puts its callable there and leaves
\* every other name's callable alone, a failed export changes nothing, and
\* an invocation of a name runs the callable the registry holds for it: the
\* one of the most recent successful export under that name.
C16_LastWriterWins ==
    [][/\ (last'.op = "export" /\ last'.exc = "none" /\ hostAlive') =>
              /\ DOMAIN _callback_registry' =
                     DOMAIN _callback_registry \cup {last'.name}
              /\ _callback_registry'[last'.name] = last'.callee
              /\ \A m \in DOMAIN _callback_registry \ {last'.name} :
                     _callback_registry'[m] = _callback_registry[m]
       /\ (last'.op = "export" /\ last'.exc # "none") =>
              _callback_registry' = _callback_registry
       /\ last'.op = "invoke" =>
              /\ _callback_registry' = _callback_registry
              /\ last'.name \in DOMAIN _callback_registry =>
                     last'.callee = _callback_registry[last'.name]]_allvars

C16_Witness ==
    /\ last.op = "invoke"
    /\ last.name = <<"python-eval">>
    /\ last.callee = "two"
    /\ <<"f">> \in DOMAIN _callback_registry
    /\ _callback_registry[<<"f">>] = "one"

\* C13: append keeps the flavor: for a legal name n defined recursive or
\* simple, after append(n, v) the flavor of n is what it was and its value is
\* the old value, a single space and the escaped display string of v.
C13_AppendPreservesFlavor ==
    [][(last'.op = "append" /\ IsDefined(vars, last'.name)) =>
          LET n == last'.name
              s == object_to_string(last'.value)
          IN  /\ last'.exc = "none"
              /\ hostAlive'
              /\ flavor(n, vars').result = <<vars[n].flavor>>
              /\ vars'[n].value
                     = vars[n].value \o <<" ">> \o Encode(escape_string(s.val)).val]_allvars

\* The two patterns escape_string rewrites.
HasEndef(s) == \E i \in DOMAIN s : s[i] = "endef"
HasContinuation(s) ==
    \E i \in 1..(Len(s) - 1) : s[i] = "\\" /\ s[i + 1] = "\n"

\* C14 as stated: escaping an escaped text changes nothing exactly when the
\* text has neither endef nor a backslash right before a newline.
C14_IdempotentIffNoPattern ==
    last.op = "escape_string" =>
        (escape_string(last.result) = last.result
            <=> (~HasEndef(last.value.s) /\ ~HasContinuation(last.value.s)))

\* C14, amended: escaping an escaped text changes nothing exactly when the
\* text has no endef; a backslash before a newline is escaped once and the
\* second pass finds nothing left to rewrite.
C14_IdempotentIffNoEndef ==
    last.op = "escape_string" =>
        (escape_string(last.result) = last.result <=> ~HasEndef(last.value.s))

C14_Witness ==
    /\ last.op = "escape_string"
    /\ HasContinuation(last.value.s)
    /\ ~HasEndef(last.value.s)
    /\ last.result # last.value.s
    /\ escape_string(last.result) = last.result

\* The operations that read through expand.
ExpandOps ==
    {"expand", "get", "origin", "flavor", "defined", "__getitem__",
     "__contains__"}

\* C15: every buffer the host returns from expand is freed exactly once on
\* every exit path, the one where decoding fails included; the null pointer
\* is never freed and gives the empty string.
C15_BuffersFreedOnce ==
    /\ _gmk_char_to_string(NullBuffer) = [exc |-> "none", val |-> <<>>, freed |-> 0]
    /\ last.op \in ExpandOps => last.frees = last.allocs

ExecOps == {"python_exec", "python_file"}

\* C17: python_exec and python_file leave descriptor 1 on the file it was on
\* when the call began, on every exit path and at every nesting level, and
\* python_file leaves sys.argv as it was.
C17_RedirectionRestored ==
    [][last'.op \in ExecOps =>
          /\ fds'[1] = fds[1]
          /\ sys_argv' = sys_argv
          /\ \A k \in DOMAIN last'.trace :
                /\ last'.trace[k].after.fds[1] = last'.trace[k].before.fds[1]
                /\ last'.trace[k].after.argv = last'.trace[k].before.argv]_allvars

C17_Witness ==
    /\ last.op = "python_file"
    /\ last.exc = "none"
    /\ Len(last.trace) = 2
    /\ last.trace[1].callee = "python_file"
    /\ last.trace[1].exc = "SyntaxError"
    /\ last.trace[1].before.fds[1].file = "tmp"
    /\ last.trace[1].before.argv # <<"make">>
    /\ last.trace[2].before.fds[1].file = "stdout"

\* C19: python_exec and python_file close every descriptor they open: after
\* a call the open descriptors of the process are those open before it.
C19_DescriptorsReleased ==
    [][last'.op \in ExecOps => Open(fds') = Open(fds)]_allvars

\* C18: when the callable of an invocation has the host invoke registered
\* functions again, PYTHON_LAST_ERROR after the outermost invocation is the
\* outermost call's alone: defined with its message iff it raised, undefined
\* iff it succeeded, whatever the nested invocations did.
C18_OutermostDecides ==
    (last.op = "invoke" /\ last.nested # <<>>) =>
        /\ hostAlive
        /\ last.threw # "none" =>
              /\ IsDefined(vars, LAST_ERROR)
              /\ Expansion(LAST_ERROR, vars) = FormatError(last.threw, last.message)
        /\ last.threw = "none" => ~IsDefined(vars, LAST_ERROR)

====
